---- MODULE Spec2Model ----
(***************************************************************************)
(* The speech analysis pipeline of speech_analyzer/analyzer.py             *)
(* (analyze_speech_return_dict), as called by the /analyze endpoint of     *)
(* app/main.py.                                                            *)
(*                                                                         *)
(* A waveform is a sequence of samples.  The librosa primitives are taken  *)
(* with frame_length = hop_length = 1, so that every sample is one         *)
(* analysis frame: a sample carries the amplitude of the frame and the     *)
(* frequency of the single tone sounding in it.  Floating-point numbers    *)
(* are exact fractions [n, d] in lowest terms; the two irrational          *)
(* operations (the square root of np.std, the cosines of the Fourier       *)
(* resampling) are exact where the result is rational and rounded to       *)
(* 1/SqrtRes and 1/CosRes elsewhere.                                       *)
(***************************************************************************)
EXTENDS Integers, Sequences, FiniteSets

\* ------------------------------------------------------------- bounds
MaxLen == 4          \* longest waveform, in samples
MaxSegments == 5     \* largest segment count
SqrtRes == 100       \* the square root is rounded down to 1/SqrtRes
CosRes == 1000       \* an irrational cosine is rounded to about 1/CosRes

\* ------------------------------------------------ floating-point numbers
Abs(x) == IF x < 0 THEN -x ELSE x

RECURSIVE Gcd(_, _)
Gcd(a, b) == IF b = 0 THEN a ELSE Gcd(b, a % b)

\* n/d in lowest terms with a positive denominator (d # 0)
Frac(n, d) ==
    LET g == Gcd(Abs(n), Abs(d))
        s == IF d < 0 THEN -1 ELSE 1
    IN  [n |-> (s * n) \div g, d |-> (s * d) \div g]

FromInt(k) == [n |-> k, d |-> 1]
Zero == FromInt(0)

FAdd(a, b) ==
    LET g == Gcd(a.d, b.d)
    IN  Frac(a.n * (b.d \div g) + b.n * (a.d \div g), (a.d \div g) * b.d)

FNeg(a) == [n |-> -a.n, d |-> a.d]
FSub(a, b) == FAdd(a, FNeg(b))

FMul(a, b) ==
    LET g1 == Gcd(Abs(a.n), b.d)
        g2 == Gcd(Abs(b.n), a.d)
    IN  Frac((a.n \div g1) * (b.n \div g2), (a.d \div g2) * (b.d \div g1))

\* b # 0
FDiv(a, b) == FMul(a, Frac(b.d, b.n))

FAbs(a) == [n |-> Abs(a.n), d |-> a.d]
FLt(a, b) == LET g == Gcd(a.d, b.d) IN a.n * (b.d \div g) < b.n * (a.d \div g)
FLe(a, b) == LET g == Gcd(a.d, b.d) IN a.n * (b.d \div g) <= b.n * (a.d \div g)
FMin(a, b) == IF FLt(b, a) THEN b ELSE a
FMax(a, b) == IF FLt(a, b) THEN b ELSE a

RECURSIVE FSumTo(_, _)
FSumTo(s, k) == IF k = 0 THEN Zero ELSE FAdd(FSumTo(s, k - 1), s[k])

\* np.mean of a non-empty array
FMean(s) == FDiv(FSumTo(s, Len(s)), FromInt(Len(s)))

\* np.zeros(n)
Zeros(n) == [i \in 1..n |-> Zero]

\* the largest r with r * r <= x
RECURSIVE IsqrtFrom(_, _)
IsqrtFrom(x, r) == IF (r + 1) * (r + 1) <= x THEN IsqrtFrom(x, r + 1) ELSE r

RECURSIVE Isqrt(_)
Isqrt(x) ==
    IF x < 4 THEN IsqrtFrom(x, 0)
    ELSE LET r == 2 * Isqrt(x \div 4) IN IF (r + 1) * (r + 1) <= x THEN r + 1 ELSE r

\* the square root of the integer x, rounded down to 1/SqrtRes
\* (exact when x is a perfect square)
RECURSIVE SqrtDigits(_, _, _)
SqrtDigits(x, r, t) ==
    \* the largest t' >= t with (r + t'/SqrtRes)^2 <= x
    IF t + 1 < SqrtRes
       /\ 2 * r * SqrtRes * (t + 1) + (t + 1) * (t + 1) <= (x - r * r) * SqrtRes * SqrtRes
    THEN SqrtDigits(x, r, t + 1)
    ELSE t

\* a non-negative fraction rounded down to 1/SqrtRes
FRound(a) == Frac(SqrtRes * (a.n \div a.d) + (SqrtRes * (a.n % a.d)) \div a.d, SqrtRes)

SqrtInt(x) ==
    LET r == Isqrt(x)
    IN  IF r * r = x THEN FromInt(r) ELSE Frac(r * SqrtRes + SqrtDigits(x, r, 0), SqrtRes)

\* np.std: the population standard deviation of a non-empty array, from its
\* numerators a over the common denominator dd
Lcm(a, b) == (a \div Gcd(a, b)) * b

RECURSIVE CommonDen(_, _)
CommonDen(s, k) == IF k = 0 THEN 1 ELSE Lcm(CommonDen(s, k - 1), s[k].d)

RECURSIVE SumTo(_, _)
SumTo(s, k) == IF k = 0 THEN 0 ELSE SumTo(s, k - 1) + s[k]

FStd(s) ==
    LET m == Len(s)
        dd == CommonDen(s, m)
        a == [k \in 1..m |-> s[k].n * (dd \div s[k].d)]
        sq == [k \in 1..m |-> a[k] * a[k]]
        x == m * SumTo(sq, m) - SumTo(a, m) * SumTo(a, m)
    IN  FDiv(SqrtInt(x), FromInt(m * dd))

\* ------------------------------------------------- scipy.signal.resample
\* cos(x) * CosRes for 0 <= x <= pi/2, x2 = x * x * CosRes: the Taylor series
\* of the cosine up to x^10
CosSeries(x2) ==
    LET c5 == CosRes - x2 \div 90
        c4 == CosRes - (x2 * c5) \div (56 * CosRes)
        c3 == CosRes - (x2 * c4) \div (30 * CosRes)
        c2 == CosRes - (x2 * c3) \div (12 * CosRes)
    IN  CosRes - (x2 * c2) \div (2 * CosRes)

\* 2 * cos(2 * pi * num / den) * CosRes: exact where the cosine is rational
TwoCos(num, den) ==
    LET g == Gcd(Abs(num), den)
        q == den \div g
        p0 == (Abs(num) \div g) % q
        p == IF 2 * p0 > q THEN q - p0 ELSE p0
        neg == 4 * p > q
        fnum == IF neg THEN q - 2 * p ELSE 2 * p
        x == (((355 * CosRes) \div 113) * fnum) \div q
    IN  CASE q = 1 -> 2 * CosRes
          [] q = 2 -> -2 * CosRes
          [] q = 3 -> -CosRes
          [] q = 4 -> 0
          [] q = 6 -> CosRes
          [] OTHER -> (IF neg THEN -2 ELSE 2) * CosSeries((x * x) \div CosRes)

Sign(k) == IF k % 2 = 0 THEN 1 ELSE -1

RECURSIVE Harmonics(_, _, _)
Harmonics(k, num, den) ==
    IF k = 0 THEN 0 ELSE Harmonics(k - 1, num, den) + TwoCos(k * num, den)

\* Twice the weight, times CosRes, of input sample m in M * (output sample n),
\* 0-based: the spectrum of the input is cut (or zero-padded) to the
\* min(M, N) lowest frequencies, the Nyquist bin of an even min(M, N) being
\* folded when downsampling and halved when upsampling.
Kernel2(n, m, M, N) ==
    LET K == IF M < N THEN M ELSE N
        nyq == IF K % 2 # 0 THEN 0
               ELSE IF N < M THEN 2 * Sign(n) * TwoCos((N \div 2) * m, M)
               ELSE IF M < N THEN Sign(m) * TwoCos((M \div 2) * n, N)
               ELSE 2 * Sign(m + n) * CosRes
    IN  2 * CosRes + 2 * Harmonics((K - 1) \div 2, n * M - m * N, M * N) + nyq

\* resample(x, num) of a non-empty x
resample(x, num) ==
    LET M == Len(x)
    IN  [i \in 1..num |->
            FDiv(FSumTo([m \in 1..M |-> FMul(x[m], FromInt(Kernel2(i - 1, m - 1, M, num)))], M),
                 FromInt(2 * M * CosRes))]

\* ------------------------------------------------------ program constants
MinPitch == 70            \* if 70 < pitch < 400
MaxPitch == 400
scalar == 9               \* scalar = 9.0
offset == 10              \* offset = 10.0
EpsilonDen == 1000000     \* vocal_energy + 1e-6
min_centroid == 1000
max_centroid == 4000
TimeUnit == 44100         \* pause durations are counted in 1/TimeUnit seconds
DtFrame == 1024           \* times[1] - times[0] = 512/22050 s, the default hop and rate of times_like
DtFallback == 441         \* 0.01 s
MaxQuery == 50            \* segments: Query(5, ge=1, le=50)

\* ---------------------------------------------------------------- inputs
Sample(a, f) == [amp |-> a, hz |-> f]
Silence == Sample(0, 0)
PauseAlphabet == {Silence, Sample(1, 190), Sample(4, 190)}
PitchAlphabet == {Sample(1, 190), Sample(1, 191), Sample(1, 197)}
ToneAlphabet == {Sample(1, 400), Sample(1, 1000), Sample(1, 7000)}
Alphabets == {PauseAlphabet, PitchAlphabet, ToneAlphabet}
SampleRates == {1, 2}
Waveforms == UNION {[1..k -> A] : k \in 0..MaxLen, A \in Alphabets}
SegmentCounts == {n \in 1..MaxSegments : n <= MaxQuery}

\* ---------------------------------------------------- librosa primitives
\* librosa.piptrack and the argmax of the magnitudes: the pitch of the
\* strongest bin of each frame, 0 in a frame with no energy
piptrack(y) == [t \in 1..Len(y) |-> IF y[t].amp > 0 THEN y[t].hz ELSE 0]

\* librosa.feature.rms(...)[0]: the energy of each frame
rms(segment_y) == [t \in 1..Len(segment_y) |-> FromInt(segment_y[t].amp)]

\* librosa.onset.onset_strength and onset_detect: the frames where the
\* energy rises
onset_frames(segment_y) ==
    {t \in 2..Len(segment_y) : segment_y[t].amp > segment_y[t - 1].amp}

\* librosa.feature.spectral_centroid(...)[0]: the frequency of the tone of
\* each frame, 0 in a frame with no energy
spectral_centroid(y) ==
    [t \in 1..Len(y) |-> FromInt(IF y[t].amp > 0 THEN y[t].hz ELSE 0)]

\* np.linspace(0, stop, num)
linspace(stop, num) ==
    [i \in 1..num |-> IF num = 1 THEN Zero
                      ELSE FMul(FromInt(i - 1), FDiv(stop, FromInt(num - 1)))]

\* ---------------------------------------------------------------- tonality
\* a mutant of InVocalRange: the borders of the vocal range are let through
InVocalRange_Inclusive(pitch) == MinPitch <= pitch /\ pitch <= MaxPitch

InVocalRange(pitch) == MinPitch < pitch /\ pitch < MaxPitch

absolute_pitches(y) == SelectSeq(piptrack(y), InVocalRange)

base_hz(pitches) == Frac(SumTo(pitches, Len(pitches)), Len(pitches))

dev_pct(pitches) ==
    [k \in 1..Len(pitches) |->
        FMul(FAbs(FDiv(FSub(FromInt(pitches[k]), base_hz(pitches)), base_hz(pitches))),
             FromInt(100))]

vocal_energy(pitches) == FStd(dev_pct(pitches))

\* np.clip(dev_pct * (scalar / (vocal_energy + 1e-6)) + offset, 0, 100).
\* The 1e-6 decides the quotient only where vocal_energy is 0 and is below
\* the resolution of the square root elsewhere.
final_data(pitches) ==
    LET dev == dev_pct(pitches)
        ve == vocal_energy(pitches)
        reg == IF ve.n = 0 THEN Frac(1, EpsilonDen) ELSE ve
        sat == FMul(Frac(100 - offset, scalar), reg)
    IN  [k \in 1..Len(pitches) |->
            IF FLe(sat, dev[k]) THEN FromInt(100)
            ELSE FRound(FMax(Zero, FMin(FromInt(100),
                     FAdd(FMul(dev[k], FDiv(FromInt(scalar), reg)), FromInt(offset)))))]

\* a mutant of analyze_tonality: the resampling to num_parts points is left out
analyze_tonality_NoResample(y, num_parts) ==
    IF absolute_pitches(y) = << >> THEN Zeros(num_parts)
    ELSE final_data(absolute_pitches(y))

\* a mutant of analyze_tonality: a clip with no pitch gets the offset, not 0
analyze_tonality_OffsetWhenEmpty(y, num_parts) ==
    IF absolute_pitches(y) = << >> THEN [i \in 1..num_parts |-> FromInt(offset)]
    ELSE resample(final_data(absolute_pitches(y)), num_parts)

analyze_tonality(y, num_parts) ==
    IF absolute_pitches(y) = << >> THEN Zeros(num_parts)
    ELSE resample(final_data(absolute_pitches(y)), num_parts)

\* -------------------------------------------------------------- segments
segment_length(y, num_parts) == Len(y) \div num_parts

\* a mutant of SegmentRange: the last segment runs to the end of the waveform
SegmentRange_Absorb(len, num_parts, i) ==
    [lo |-> i * (len \div num_parts),
     hi |-> IF i = num_parts - 1 THEN len ELSE (i + 1) * (len \div num_parts)]

\* y[i * segment_length:(i + 1) * segment_length]: the 0-based samples
\* lo .. hi - 1
SegmentRange(len, num_parts, i) ==
    [lo |-> i * (len \div num_parts), hi |-> (i + 1) * (len \div num_parts)]

\* a mutant of segment_y: the slice includes its end index
segment_y_Inclusive(y, num_parts, i) ==
    LET r == SegmentRange(Len(y), num_parts, i)
    IN  SubSeq(y, r.lo + 1, IF r.hi + 1 <= Len(y) THEN r.hi + 1 ELSE Len(y))

segment_y(y, num_parts, i) ==
    LET r == SegmentRange(Len(y), num_parts, i) IN SubSeq(y, r.lo + 1, r.hi)

\* ------------------------------------------------------------------ pace
PaceOfSegment(seg, sr) ==
    IF Len(seg) = 0 THEN Zero
    ELSE LET onset_times == onset_frames(seg)
             duration_minutes == FDiv(Frac(Len(seg), sr), FromInt(60))
         IN  IF duration_minutes.n # 0
             THEN FDiv(FromInt(Cardinality(onset_times)), duration_minutes)
             ELSE Zero

analyze_pace(y, sr, num_parts) ==
    [i \in 1..num_parts |-> PaceOfSegment(segment_y(y, num_parts, i - 1), sr)]

\* --------------------------------------------------------------- pausing
threshold(r) == FMul(FMean(r), Frac(1, 2))

silent_regions(r) == [j \in 1..Len(r) |-> FLt(r[j], threshold(r))]

\* times[1] - times[0] if len(times) > 1 else 0.01
dt(frames) == IF frames > 1 THEN DtFrame ELSE DtFallback

\* The loop over the frames after its first j iterations
RECURSIVE PauseWalk(_, _, _)
PauseWalk(silent, d, j) ==
    IF j = 0 THEN [current_pause |-> 0, pause_durations |-> << >>]
    ELSE LET w == PauseWalk(silent, d, j - 1)
         IN  IF silent[j]
             THEN [w EXCEPT !.current_pause = @ + d]
             ELSE IF w.current_pause > 0
             THEN [current_pause |-> 0,
                   pause_durations |-> Append(w.pause_durations, w.current_pause)]
             ELSE w

\* a mutant of pause_durations: the run that reaches the end is not recorded
pause_durations_NoTrailing(silent, d) ==
    PauseWalk(silent, d, Len(silent)).pause_durations

\* The loop and the statement after it
pause_durations(silent, d) ==
    LET w == PauseWalk(silent, d, Len(silent))
    IN  IF w.current_pause > 0
        THEN Append(w.pause_durations, w.current_pause)
        ELSE w.pause_durations

PauseOfSegment(seg) ==
    IF Len(seg) = 0 THEN Zero
    ELSE IF Len(rms(seg)) = 0 THEN Zero
    ELSE LET pd == pause_durations(silent_regions(rms(seg)), dt(Len(rms(seg))))
         IN  IF pd # << >> THEN Frac(SumTo(pd, Len(pd)), Len(pd) * TimeUnit) ELSE Zero

analyze_pauses(y, sr, num_parts) ==
    [i \in 1..num_parts |-> PauseOfSegment(segment_y(y, num_parts, i - 1))]

\* ------------------------------------------------- vocal characteristics
mean_centroid(y, num_parts) ==
    FMean(IF Len(spectral_centroid(y)) = 0 THEN Zeros(num_parts)
          ELSE resample(spectral_centroid(y), num_parts))

\* a mutant of masculinity_percentage: the value is not clipped
masculinity_percentage_NoClip(mean) ==
    FMul(FDiv(FSub(FromInt(max_centroid), mean), FromInt(max_centroid - min_centroid)),
         FromInt(100))

\* a mutant of masculinity_percentage: the distance is taken from min_centroid
masculinity_percentage_FromMin(mean) ==
    FMax(Zero, FMin(FromInt(100),
        FMul(FDiv(FSub(mean, FromInt(min_centroid)), FromInt(max_centroid - min_centroid)),
             FromInt(100))))

masculinity_percentage(mean) ==
    FMax(Zero, FMin(FromInt(100),
        FMul(FDiv(FSub(FromInt(max_centroid), mean), FromInt(max_centroid - min_centroid)),
             FromInt(100))))

femininity_percentage(masculinity) == FSub(FromInt(100), masculinity)

analyze_vocal_characters(y, num_parts) ==
    LET m == masculinity_percentage(mean_centroid(y, num_parts))
    IN  [masculinityPercentage |-> m, femininityPercentage |-> femininity_percentage(m)]

\* ----------------------------------------------------------------- state
VARIABLES
    pc,              \* the statement analyze_speech_return_dict is at
    y,               \* the waveform
    sr,              \* its sample rate
    num_parts,       \* the segment count
    time_intervals,
    tonality_var,
    pace_var,
    pauses_var,
    vocal_var,       \* masculinity_percentage, femininity_percentage
    response

vars == <<pc, y, sr, num_parts, time_intervals, tonality_var, pace_var, pauses_var,
          vocal_var, response>>

None == << >>

Init ==
    /\ pc = "idle"
    /\ y = << >>
    /\ sr = 1
    /\ num_parts = 1
    /\ time_intervals = None
    /\ tonality_var = None
    /\ pace_var = None
    /\ pauses_var = None
    /\ vocal_var = None
    /\ response = None

\* analyze_audio calls analyze_speech_return_dict(temp_path, segments):
\* librosa.load, get_duration, np.linspace
Load ==
    /\ pc = "idle"
    /\ \E w \in Waveforms, rate \in SampleRates, segments \in SegmentCounts :
        /\ y' = w
        /\ sr' = rate
        /\ num_parts' = segments
        /\ time_intervals' = linspace(Frac(Len(w), rate), segments)
    /\ pc' = "tonality"
    /\ UNCHANGED <<tonality_var, pace_var, pauses_var, vocal_var, response>>

RunTonality ==
    /\ pc = "tonality"
    /\ tonality_var' = analyze_tonality(y, num_parts)
    /\ pc' = "pace"
    /\ UNCHANGED <<y, sr, num_parts, time_intervals, pace_var, pauses_var, vocal_var, response>>

RunPace ==
    /\ pc = "pace"
    /\ pace_var' = analyze_pace(y, sr, num_parts)
    /\ pc' = "pauses"
    /\ UNCHANGED <<y, sr, num_parts, time_intervals, tonality_var, pauses_var, vocal_var,
                   response>>

RunPauses ==
    /\ pc = "pauses"
    /\ pauses_var' = analyze_pauses(y, sr, num_parts)
    /\ pc' = "vocal"
    /\ UNCHANGED <<y, sr, num_parts, time_intervals, tonality_var, pace_var, vocal_var,
                   response>>

RunVocal ==
    /\ pc = "vocal"
    /\ vocal_var' = analyze_vocal_characters(y, num_parts)
    /\ pc' = "response"
    /\ UNCHANGED <<y, sr, num_parts, time_intervals, tonality_var, pace_var, pauses_var,
                   response>>

TimeSeries(data) ==
    [time |-> time_intervals, data |-> data, average |-> FMean(data)]

BuildResponse ==
    /\ pc = "response"
    /\ response' = [tonality |-> TimeSeries(tonality_var),
                    pace |-> TimeSeries(pace_var),
                    pausing |-> TimeSeries(pauses_var),
                    vocalCharacters |-> vocal_var]
    /\ pc' = "done"
    /\ UNCHANGED <<y, sr, num_parts, time_intervals, tonality_var, pace_var, pauses_var,
                   vocal_var>>

Next == Load \/ RunTonality \/ RunPace \/ RunPauses \/ RunVocal \/ BuildResponse

Spec == Init /\ [][Next]_vars

\* ------------------------------------------------------------ properties
TonalityDone == pc \in {"pace", "pauses", "vocal", "response", "done"}
PaceDone == pc \in {"pauses", "vocal", "response", "done"}
PausesDone == pc \in {"vocal", "response", "done"}
VocalDone == pc \in {"response", "done"}

Segments == 0..(num_parts - 1)

\* C1: for every segment count and waveform, time and data of tonality, pace
\* and pausing in the result all have num_parts elements.
C1_SeriesLengths ==
    pc = "done" =>
        \A s \in {response.tonality, response.pace, response.pausing} :
            Len(s.time) = num_parts /\ Len(s.data) = num_parts

\* a waveform shorter than the segment count, with no pitch in range
C1_Witness ==
    /\ pc = "done"
    /\ 0 < Len(y) /\ Len(y) < num_parts
    /\ absolute_pitches(y) = << >>
    /\ Len(response.tonality.data) = num_parts
    /\ Len(response.pausing.time) = num_parts

\* C2: masculinityPercentage and femininityPercentage both lie in [0, 100]
\* and sum to exactly 100, whatever the mean spectral centroid.
C2_PercentagesSumTo100 ==
    VocalDone =>
        /\ FLe(Zero, vocal_var.masculinityPercentage)
        /\ FLe(vocal_var.masculinityPercentage, FromInt(100))
        /\ FLe(Zero, vocal_var.femininityPercentage)
        /\ FLe(vocal_var.femininityPercentage, FromInt(100))
        /\ FAdd(vocal_var.masculinityPercentage, vocal_var.femininityPercentage) = FromInt(100)

\* a mean centroid above 4000, where the clip acts
C2_Witness ==
    /\ VocalDone
    /\ FLt(FromInt(4000), mean_centroid(y, num_parts))
    /\ vocal_var.masculinityPercentage = Zero
    /\ vocal_var.femininityPercentage = FromInt(100)

\* C3 as the specification states it: a mean centroid of 1000 gives
\* masculinity 0 and femininity 100, 4000 gives 100 and 0, 2500 gives 50 and 50.
C3_AnchorsAsStated ==
    pc = "done" =>
      LET mean == mean_centroid(y, num_parts) IN
        /\ mean = FromInt(1000) =>
              /\ response.vocalCharacters.masculinityPercentage = Zero
              /\ response.vocalCharacters.femininityPercentage = FromInt(100)
        /\ mean = FromInt(4000) =>
              /\ response.vocalCharacters.masculinityPercentage = FromInt(100)
              /\ response.vocalCharacters.femininityPercentage = Zero
        /\ mean = FromInt(2500) =>
              /\ response.vocalCharacters.masculinityPercentage = FromInt(50)
              /\ response.vocalCharacters.femininityPercentage = FromInt(50)

\* C3, amended: a mean centroid of 1000 gives masculinity 100 and femininity
\* 0, 4000 gives masculinity 0 and femininity 100, 2500 gives 50 and 50.
C3_Anchors ==
    pc = "done" =>
      LET mean == mean_centroid(y, num_parts) IN
        /\ mean = FromInt(1000) =>
              /\ response.vocalCharacters.masculinityPercentage = FromInt(100)
              /\ response.vocalCharacters.femininityPercentage = Zero
        /\ mean = FromInt(4000) =>
              /\ response.vocalCharacters.masculinityPercentage = Zero
              /\ response.vocalCharacters.femininityPercentage = FromInt(100)
        /\ mean = FromInt(2500) =>
              /\ response.vocalCharacters.masculinityPercentage = FromInt(50)
              /\ response.vocalCharacters.femininityPercentage = FromInt(50)

C3_Witness ==
    /\ pc = "done"
    /\ mean_centroid(y, num_parts) = FromInt(4000)
    /\ response.vocalCharacters.masculinityPercentage = Zero
    /\ response.vocalCharacters.femininityPercentage = FromInt(100)

\* C4: every element of the tonality data that is returned, after the
\* resampling to num_parts points, lies in [0, 100].
C4_TonalityWithinBounds ==
    TonalityDone =>
        \A i \in 1..Len(tonality_var) :
            FLe(Zero, tonality_var[i]) /\ FLe(tonality_var[i], FromInt(100))

\* C5: for a zero-length waveform and any segment count every analyzer
\* returns (all segments are empty, nothing is divided by their length) and
\* the data of tonality, pace and pausing are all zeros, num_parts of them.
C5_EmptyWaveform ==
    (pc # "idle" /\ Len(y) = 0) =>
        /\ \A i \in Segments : Len(segment_y(y, num_parts, i)) = 0
        /\ TonalityDone => tonality_var = [i \in 1..num_parts |-> Zero]
        /\ PaceDone => pace_var = [i \in 1..num_parts |-> Zero]
        /\ PausesDone => pauses_var = [i \in 1..num_parts |-> Zero]
        /\ pc = "done" =>
              /\ response.tonality.data = [i \in 1..num_parts |-> Zero]
              /\ response.pace.data = [i \in 1..num_parts |-> Zero]
              /\ response.pausing.data = [i \in 1..num_parts |-> Zero]

\* the specification's case: no sample, five segments
C5_Witness ==
    /\ pc = "done"
    /\ Len(y) = 0
    /\ num_parts = 5
    /\ response.tonality.data = <<Zero, Zero, Zero, Zero, Zero>>
    /\ response.pace.data = <<Zero, Zero, Zero, Zero, Zero>>
    /\ response.pausing.data = <<Zero, Zero, Zero, Zero, Zero>>

\* C6: a segment of pure silence (every RMS frame is 0) has a pause score
\* equal to its full duration, (number of frames) * dt.
C6_SilentSegmentFullDuration ==
    PausesDone =>
        \A i \in Segments :
            LET r == rms(segment_y(y, num_parts, i))
            IN  (Len(r) > 0 /\ \A j \in 1..Len(r) : r[j] = Zero) =>
                    pauses_var[i + 1] = Frac(Len(r) * dt(Len(r)), TimeUnit)

\* The maximal runs of consecutive silent frames, by their first frames
RunStarts(silent) ==
    {j \in 1..Len(silent) : silent[j] /\ (j = 1 \/ ~silent[j - 1])}

RunLength(silent, j) ==
    Cardinality({e \in j..Len(silent) : \A k \in j..e : silent[k]})

\* the run lengths in frame order
RECURSIVE RunsFrom(_, _)
RunsFrom(silent, j) ==
    IF j > Len(silent) THEN << >>
    ELSE IF j \in RunStarts(silent)
    THEN <<RunLength(silent, j)>> \o RunsFrom(silent, j + 1)
    ELSE RunsFrom(silent, j + 1)

ExpectedPauses(silent, d) ==
    LET runs == RunsFrom(silent, 1) IN [k \in 1..Len(runs) |-> runs[k] * d]

SilencePatterns == UNION {[1..k -> BOOLEAN] : k \in 0..MaxLen}

\* C7: the recorded pause durations are, in frame order, one entry of
\* (run length) * dt per maximal run of silent frames, the run that reaches
\* the end of the segment included; the running pause is 0 after a
\* non-silent frame; the score of a segment is the mean of the entries, or 0
\* when no frame is silent.
\* (The walk is a function of the silent/non-silent sequence alone: it is
\* checked on every sequence of at most MaxLen frames, once, and the scores
\* on every segment the pipeline analyzes.)
C7_PauseRuns ==
    /\ pc = "idle" =>
          \A silent \in SilencePatterns : \A d \in {DtFrame, DtFallback} :
              /\ pause_durations(silent, d) = ExpectedPauses(silent, d)
              /\ \A j \in 1..Len(silent) :
                    ~silent[j] => PauseWalk(silent, d, j).current_pause = 0
    /\ PausesDone =>
          \A i \in Segments :
              LET r == rms(segment_y(y, num_parts, i))
                  e == ExpectedPauses([j \in 1..Len(r) |-> FLt(r[j], FMul(FMean(r), Frac(1, 2)))],
                                      dt(Len(r)))
              IN  pauses_var[i + 1] =
                      IF Len(r) = 0 \/ e = << >> THEN Zero
                      ELSE Frac(SumTo(e, Len(e)), Len(e) * TimeUnit)

\* a segment with two runs of silence, the second reaching its end
C7_Witness ==
    /\ PausesDone
    /\ \E i \in Segments :
          LET r == rms(segment_y(y, num_parts, i))
              silent == silent_regions(r)
          IN  /\ Len(r) > 2
              /\ silent[Len(r)]
              /\ Len(pause_durations(silent, dt(Len(r)))) = 2
              /\ pauses_var[i + 1] = Frac(DtFrame, TimeUnit)

\* The samples put in the place of a sample of y: every amplitude of the
\* inputs, and a pitch in the vocal range
Substitutes == {Silence, Sample(1, 197), Sample(4, 190)}

\* The waveforms that differ from y in one sample outside segment i
Outside(i, k) ==
    LET r == SegmentRange(Len(y), num_parts, i) IN k - 1 < r.lo \/ k - 1 >= r.hi

Changed(k, s) == [y EXCEPT ![k] = s]

\* C8 as stated: for tonality, pace and pausing, data[i] is the same for any
\* two waveforms of equal length that agree on the samples of segment i.
\* (Changing one sample at a time outside segment i reaches every such waveform.)
C8_SegmentsIndependent ==
    pc = "done" =>
        \A k \in 1..Len(y) : \A s \in Substitutes :
            LET tonality == analyze_tonality(Changed(k, s), num_parts)
                pace == analyze_pace(Changed(k, s), sr, num_parts)
                pausing == analyze_pauses(Changed(k, s), sr, num_parts)
            IN  \A i \in Segments :
                    Outside(i, k) =>
                        /\ tonality[i + 1] = response.tonality.data[i + 1]
                        /\ pace[i + 1] = response.pace.data[i + 1]
                        /\ pausing[i + 1] = response.pausing.data[i + 1]

\* C8, amended: for pace and pausing, data[i] is the same for any two
\* waveforms of equal length that agree on the samples of segment i.
C8_PacePausingIndependent ==
    pc = "done" =>
        \A k \in 1..Len(y) : \A s \in Substitutes :
            LET pace == analyze_pace(Changed(k, s), sr, num_parts)
                pausing == analyze_pauses(Changed(k, s), sr, num_parts)
            IN  \A i \in Segments :
                    Outside(i, k) =>
                        /\ pace[i + 1] = response.pace.data[i + 1]
                        /\ pausing[i + 1] = response.pausing.data[i + 1]

\* a change in another segment that changes that segment's pace and pause
\* scores and leaves segment i's alone
C8_Witness ==
    /\ pc = "done"
    /\ \E i \in Segments, j \in Segments, k \in 1..Len(y), s \in Substitutes :
          /\ i # j
          /\ ~Outside(j, k)
          /\ Outside(i, k)
          /\ analyze_pace(Changed(k, s), sr, num_parts)[j + 1] # pace_var[j + 1]
          /\ analyze_pauses(Changed(k, s), sr, num_parts)[j + 1] # pauses_var[j + 1]
          /\ analyze_pace(Changed(k, s), sr, num_parts)[i + 1] = pace_var[i + 1]
          /\ analyze_pauses(Changed(k, s), sr, num_parts)[i + 1] = pauses_var[i + 1]

\* the pitches of the frames of segment i that lie strictly between 70 and 400
CandidatesIn(w) ==
    {t \in 1..Len(w) : 70 < piptrack(w)[t] /\ piptrack(w)[t] < 400}

\* C9 as stated: a segment with fewer than 5 valid pitch candidates has a
\* tonality score of 0.
C9_FewCandidatesScoreZero ==
    TonalityDone =>
        \A i \in Segments :
            Cardinality(CandidatesIn(segment_y(y, num_parts, i))) < 5 =>
                tonality_var[i + 1] = Zero

\* C9, amended: if no valid pitch candidate (frequency strictly between 70
\* and 400 Hz) remains in the whole clip, every segment's tonality score is 0.
C9_NoCandidateScoreZero ==
    TonalityDone =>
        (CandidatesIn(y) = {} => \A i \in Segments : tonality_var[i + 1] = Zero)

\* a clip with sound, none of it in the vocal range, one frame on its border
C9_Witness ==
    /\ TonalityDone
    /\ Len(y) > 1
    /\ \E t \in 1..Len(y) : piptrack(y)[t] = 400
    /\ CandidatesIn(y) = {}
    /\ \A i \in Segments : tonality_var[i + 1] = Zero

\* The 0-based sample indices of segment i
Indices(i) ==
    LET r == SegmentRange(Len(y), num_parts, i) IN {k \in 0..(Len(y) - 1) : r.lo <= k /\ k < r.hi}

\* C10 as stated: the segments are contiguous and non-overlapping, segments
\* 0..N-2 have length L // N, the N segments cover every sample index in
\* [0, L) and the last one holds the L mod N extra samples.
C10_LastSegmentAbsorbs ==
    pc = "done" =>
        /\ \A i \in Segments : i < num_parts - 1 =>
              /\ Cardinality(Indices(i)) = Len(y) \div num_parts
              /\ SegmentRange(Len(y), num_parts, i).hi = SegmentRange(Len(y), num_parts, i + 1).lo
        /\ UNION {Indices(i) : i \in Segments} = 0..(Len(y) - 1)
        /\ Cardinality(Indices(num_parts - 1)) = (Len(y) \div num_parts) + (Len(y) % num_parts)

\* C10, amended: the remainder is dropped: the N segments are contiguous and
\* non-overlapping, every one of them, the last included, has length L // N,
\* together they cover exactly the sample indices [0, N * (L // N)), and the
\* last L mod N samples are in no segment and change no pace or pause score.
C10_RemainderDropped ==
    pc = "done" =>
        /\ \A i \in Segments : Cardinality(Indices(i)) = Len(y) \div num_parts
        /\ \A i \in Segments : i < num_parts - 1 =>
              SegmentRange(Len(y), num_parts, i).hi = SegmentRange(Len(y), num_parts, i + 1).lo
        /\ UNION {Indices(i) : i \in Segments} = 0..(num_parts * (Len(y) \div num_parts) - 1)
        /\ \A k \in 1..Len(y) : \A s \in Substitutes :
              k > num_parts * (Len(y) \div num_parts) =>
                  /\ analyze_pace(Changed(k, s), sr, num_parts) = response.pace.data
                  /\ analyze_pauses(Changed(k, s), sr, num_parts) = response.pausing.data

\* three samples in two segments of one sample: the last sample is in neither
C10_Witness ==
    /\ pc = "done"
    /\ Len(y) = 3
    /\ num_parts = 2
    /\ Indices(0) = {0}
    /\ Indices(1) = {1}
    /\ y[3].amp > y[2].amp
    /\ pace_var = <<Zero, Zero>>

====
